---- MODULE Spec2Model ----
(***************************************************************************)
(* The e-commerce store of app.py: the Customer, Order and Product tables, *)
(* the order_product association table, the seed functions that fill them  *)
(* and the report functions that query them.                               *)
(*                                                                         *)
(* Rows are kept in insertion order; a row's id is its position (SQLite    *)
(* hands out 1, 2, 3, ... and nothing is ever deleted).  Time is counted   *)
(* in whole days since the start of the current year.  Strings that only   *)
(* matter up to equality (emails, product names) are natural numbers, and  *)
(* a generated string is either one seen before or the least unseen one.   *)
(***************************************************************************)
EXTENDS Integers, Sequences, FiniteSets

VARIABLES
    customer,       \* the Customer table: a sequence of rows
    order,          \* the Order table: a sequence of rows
    product,        \* the Product table: a sequence of rows
    order_product,  \* the association table: a set of <<order_id, product_id>>
    now,            \* the clock, in days since the start of the year
    op,             \* the function called last, or "Tick" once the clock moved
    arg,            \* its argument (None when it takes none)
    failed,         \* "" when it returned, else the function that raised
    out,            \* the rows the last report printed
    pc              \* "idle", or the phase create_random_data calls next

vars == <<customer, order, product, order_product, now, op, arg, failed, out, pc>>

store == <<customer, order, product, order_product>>

----------------------------------------------------------------------------
(* Bounds of the model.  The batches stand for range(100) customers,       *)
(* range(1000) orders and range(10) products; as in the program, a batch   *)
(* of products is no smaller than the largest sample drawn from them.      *)

CustomersPerBatch == 2
OrdersPerBatch == 1
ProductsPerBatch == 4
MaxCustomers == 4
MaxOrders == 2
MaxProducts == 4
MaxNow == 1

----------------------------------------------------------------------------
(* Values *)

\* NULL in a nullable column, None in Python
None == -1

\* the population of random.choices for coupon_code; "None" stands for None
CouponChoices == {"None", "50OFF", "FREESHIPPING", "BUYONEGETONE"}

\* random.randint(1, 3) in add_order_products
MinSample == 1
MaxSample == 3

\* random.randint(10, 100), thinned to two prices
PriceChoices == {20, 30}

\* the arguments the report functions are called with
DefaultDays == 30
DefaultAmount == 500
DaysInputs == {0, 1, DefaultDays}
AmountInputs == {-1, 50, DefaultAmount}
CustomerIdInputs == 1 .. (CustomersPerBatch + 1)

Max(S) == CHOOSE x \in S : \A y \in S : y <= x

Range(f) == {f[i] : i \in DOMAIN f}

RECURSIVE FakeStrings(_, _)
\* a batch of k generated strings when those in `seen` exist already: each
\* is one seen or generated before, or the least unseen one
FakeStrings(seen, k) ==
    IF k = 0 THEN {<<>>}
    ELSE UNION {{<<x>> \o rest : rest \in FakeStrings(seen \cup {x}, k - 1)} :
                   x \in seen \cup {Max(seen \cup {0}) + 1}}

----------------------------------------------------------------------------
(* The unique constraints, checked when a batch is committed *)

Distinct(s) == \A i, j \in DOMAIN s : i # j => s[i] # s[j]

UniqueEmail(rows) == Distinct([i \in DOMAIN rows |-> rows[i].email])

UniqueNameAlways(rows) == TRUE

UniqueName(rows) == Distinct([i \in DOMAIN rows |-> rows[i].name])

----------------------------------------------------------------------------
(* Seed phases.  Each yields the set of its outcomes from the committed    *)
(* store S at time t, as [ok, customer, order, product, order_product].    *)

Store(c, o, p, a) ==
    [customer |-> c, order |-> o, product |-> p, order_product |-> a]

Outcome(ok, S) ==
    [ok |-> ok, customer |-> S.customer, order |-> S.order,
     product |-> S.product, order_product |-> S.order_product]

RECURSIVE UniqueEmailPrefix(_, _)
\* the longest prefix of the first n rows that the unique constraint admits
UniqueEmailPrefix(rows, n) ==
    IF n = 0 \/ UniqueEmail(SubSeq(rows, 1, n)) THEN SubSeq(rows, 1, n)
    ELSE UniqueEmailPrefix(rows, n - 1)

RECURSIVE UniqueNamePrefix(_, _)
UniqueNamePrefix(rows, n) ==
    IF n = 0 \/ UniqueName(SubSeq(rows, 1, n)) THEN SubSeq(rows, 1, n)
    ELSE UniqueNamePrefix(rows, n - 1)

\* a commit that keeps the rows inserted before the one that is refused
commit_without_rollback(S, T) ==
    IF UniqueEmail(T.customer) /\ UniqueName(T.product)
    THEN Outcome(TRUE, T)
    ELSE Outcome(FALSE, Store(UniqueEmailPrefix(T.customer, Len(T.customer)), T.order,
                              UniqueNamePrefix(T.product, Len(T.product)),
                              T.order_product))

\* db.session.commit(): the pending rows T are flushed in one transaction; an
\* IntegrityError rolls all of it back and leaves the committed store S
commit(S, T) ==
    IF UniqueEmail(T.customer) /\ UniqueName(T.product)
    THEN Outcome(TRUE, T)
    ELSE Outcome(FALSE, S)

Emails(S) == {S.customer[i].email : i \in DOMAIN S.customer}

Names(S) == {S.product[i].name : i \in DOMAIN S.product}

AddCustomers(S) ==
    {commit(S, Store(S.customer \o [i \in 1 .. CustomersPerBatch |-> [email |-> d[i]]],
                     S.order, S.product, S.order_product)) :
        d \in FakeStrings(Emails(S), CustomersPerBatch)}

\* fake.date_time_this_year(): between the start of the year and now
date_time_this_year(t) == 0 .. t

date_time_between_anywhere(start, t) == 0 .. t

\* fake.date_time_between(start_date= start): between start and now
date_time_between(start, t) == start .. t

ShippedDates(ordered, t) == {None} \cup date_time_between(ordered, t)

DeliveredDatesUnguarded(shipped, t) ==
    {None} \cup date_time_between(IF shipped # None THEN shipped ELSE 0, t)

\* delivered_date stays None unless a shipping date exists
DeliveredDates(shipped, t) ==
    IF shipped # None THEN {None} \cup date_time_between(shipped, t) ELSE {None}

\* random.choice(customers).id
RandomCustomerId(customers) == DOMAIN customers

\* the Order rows one turn of the loop of add_orders can build
NewOrders(customers, t) ==
    UNION {UNION {{[order_date |-> od, ship_date |-> sd, delivered_date |-> dd,
                    coupon_code |-> cc, customer_id |-> c] :
                        dd \in DeliveredDates(sd, t), cc \in CouponChoices,
                        c \in RandomCustomerId(customers)} :
                  sd \in ShippedDates(od, t)} :
           od \in date_time_this_year(t)}

\* random.choice of an empty list raises IndexError before any row is added
AddOrders(S, t) ==
    IF S.customer = <<>>
    THEN {Outcome(FALSE, S)}
    ELSE {commit(S, Store(S.customer, S.order \o batch, S.product, S.order_product)) :
            batch \in [1 .. OrdersPerBatch -> NewOrders(S.customer, t)]}

AddProducts(S) ==
    {commit(S, Store(S.customer, S.order,
                     S.product \o [i \in 1 .. ProductsPerBatch |->
                                      [name |-> d[i], price |-> pr[i]]],
                     S.order_product)) :
        d \in FakeStrings(Names(S), ProductsPerBatch),
        pr \in [1 .. ProductsPerBatch -> PriceChoices]}

SamplesBeyond(products) ==
    {smp \in SUBSET (1 .. (Len(products) + 1)) :
        Cardinality(smp) >= MinSample /\ Cardinality(smp) <= MaxSample}

\* random.sample(products, k) for k = random.randint(1, 3): k distinct products
Samples(products) ==
    {smp \in SUBSET (DOMAIN products) :
        Cardinality(smp) >= MinSample /\ Cardinality(smp) <= MaxSample}

RECURSIVE ExtendProducts(_, _, _)
\* order.products.extend(...) for the orders i, i+1, ...: the association rows
\* flushed are those of products the order did not have yet
ExtendProducts(S, i, pairs) ==
    IF i > Len(S.order) THEN {pairs}
    ELSE UNION {ExtendProducts(S, i + 1, pairs \cup {<<i, p>> : p \in smp}) :
                   smp \in Samples(S.product)}

\* random.sample raises ValueError when k exceeds the number of products
AddOrderProducts(S) ==
    LET raises == IF S.order # <<>> /\ Len(S.product) < MaxSample
                  THEN {Outcome(FALSE, S)} ELSE {}
        done   == IF S.order = <<>> \/ Len(S.product) >= MinSample
                  THEN {commit(S, Store(S.customer, S.order, S.product, pairs)) :
                           pairs \in ExtendProducts(S, 1, S.order_product)}
                  ELSE {}
    IN  raises \cup done

----------------------------------------------------------------------------
(* Seed functions *)

Current == Store(customer, order, product, order_product)

\* a seed phase ends with outcome r; create_random_data goes on to `next`
\* unless the phase raised
Phase(name, r, next) ==
    /\ customer' = r.customer
    /\ order' = r.order
    /\ product' = r.product
    /\ order_product' = r.order_product
    /\ failed' = IF r.ok THEN "" ELSE name
    /\ pc' = IF r.ok THEN next ELSE "idle"
    /\ UNCHANGED <<now, out>>

Called(name) == op' = name /\ arg' = None

\* the tables are capped: a seed function is not called when its batch would
\* not fit
RoomForCustomers == Len(customer) + CustomersPerBatch <= MaxCustomers
RoomForOrders == Len(order) + OrdersPerBatch <= MaxOrders
RoomForProducts == Len(product) + ProductsPerBatch <= MaxProducts

add_customers ==
    /\ pc = "idle" /\ RoomForCustomers
    /\ Called("add_customers")
    /\ \E r \in AddCustomers(Current) : Phase("add_customers", r, "idle")

add_orders ==
    /\ pc = "idle" /\ RoomForOrders
    /\ Called("add_orders")
    /\ \E r \in AddOrders(Current, now) : Phase("add_orders", r, "idle")

add_products ==
    /\ pc = "idle" /\ RoomForProducts
    /\ Called("add_products")
    /\ \E r \in AddProducts(Current) : Phase("add_products", r, "idle")

add_order_products ==
    /\ pc = "idle"
    /\ Called("add_order_products")
    /\ \E r \in AddOrderProducts(Current) : Phase("add_order_products", r, "idle")

\* create_random_data: db.create_all(), then the four phases in turn; a phase
\* that raises ends the call
create_random_data ==
    /\ pc = "idle" /\ RoomForCustomers /\ RoomForOrders /\ RoomForProducts
    /\ Called("create_random_data")
    /\ \E r \in AddCustomers(Current) : Phase("add_customers", r, "add_orders")

create_random_data_add_orders ==
    /\ pc = "add_orders"
    /\ UNCHANGED <<op, arg>>
    /\ \E r \in AddOrders(Current, now) : Phase("add_orders", r, "add_products")

create_random_data_add_products ==
    /\ pc = "add_products"
    /\ UNCHANGED <<op, arg>>
    /\ \E r \in AddProducts(Current) : Phase("add_products", r, "add_order_products")

create_random_data_add_order_products ==
    /\ pc = "add_order_products"
    /\ UNCHANGED <<op, arg>>
    /\ \E r \in AddOrderProducts(Current) : Phase("add_order_products", r, "idle")

\* the clock advances between calls
Tick ==
    /\ pc = "idle" /\ now < MaxNow
    /\ now' = now + 1
    /\ op' = "Tick"
    /\ UNCHANGED <<customer, order, product, order_product, arg, failed, out, pc>>

----------------------------------------------------------------------------
(* Report functions.  Each is a query on the committed store; `out` keeps  *)
(* the rows of its result, from which the lines it prints are taken.       *)

Printed(name, a, rows, raised) ==
    /\ pc = "idle"
    /\ op' = name
    /\ arg' = a
    /\ out' = rows
    /\ failed' = IF raised THEN name ELSE ""
    /\ UNCHANGED <<customer, order, product, order_product, now, pc>>

RECURSIVE InIdOrder(_, _)
\* the ids of S below or at n, in ascending order
InIdOrder(S, n) ==
    IF n = 0 THEN <<>>
    ELSE InIdOrder(S, n - 1) \o (IF n \in S THEN <<n>> ELSE <<>>)

get_orders_by_or_create(customer_id) ==
    LET orders == {i \in DOMAIN order : order[i].customer_id = customer_id}
    IN  /\ pc = "idle"
        /\ op' = "get_orders_by"
        /\ arg' = customer_id
        /\ out' = InIdOrder(orders, Len(order))
        /\ failed' = ""
        /\ customer' = IF customer_id \in DOMAIN customer THEN customer
                       ELSE customer \o <<[email |-> 0]>>
        /\ UNCHANGED <<order, product, order_product, now, pc>>

\* customer is None when no row has the id, and customer.first_name raises
\* AttributeError before anything is printed
get_orders_by(customer_id) ==
    LET orders == {i \in DOMAIN order : order[i].customer_id = customer_id}
    IN  IF customer_id \in DOMAIN customer
        THEN Printed("get_orders_by", customer_id, InIdOrder(orders, Len(order)), FALSE)
        ELSE Printed("get_orders_by", customer_id, <<>>, TRUE)

RECURSIVE OrderByOrderDateAsc(_)
OrderByOrderDateAsc(ids) ==
    IF ids = {} THEN {<<>>}
    ELSE UNION {{<<i>> \o rest : rest \in OrderByOrderDateAsc(ids \ {i})} :
                   i \in {j \in ids :
                            \A k \in ids : order[j].order_date <= order[k].order_date}}

RECURSIVE OrderByOrderDateDesc(_)
\* ORDER BY order_date DESC: the latest of the rows left comes next; rows of
\* one date come in any order
OrderByOrderDateDesc(ids) ==
    IF ids = {} THEN {<<>>}
    ELSE UNION {{<<i>> \o rest : rest \in OrderByOrderDateDesc(ids \ {i})} :
                   i \in {j \in ids :
                            \A k \in ids : order[j].order_date >= order[k].order_date}}

get_pending_orders ==
    \E rows \in OrderByOrderDateDesc({i \in DOMAIN order : order[i].ship_date = None}) :
        Printed("get_pending_orders", None, rows, FALSE)

how_many_customers ==
    Printed("how_many_customers", None, <<Len(customer)>>, FALSE)

orders_with_code ==
    Printed("orders_with_code", None,
            InIdOrder({i \in DOMAIN order : /\ order[i].coupon_code # "None"
                                            /\ order[i].coupon_code # "FREESHIPPING"},
                      Len(order)),
            FALSE)

RECURSIVE SumPrice(_)
\* SUM(product.price) over joined rows <<order_id, product_id>>
SumPrice(rows) ==
    IF rows = {} THEN 0
    ELSE LET r == CHOOSE x \in rows : TRUE
         IN  product[r[2]].price + SumPrice(rows \ {r})

\* SUM over no rows is NULL
SumOrNull(rows) == IF rows = {} THEN None ELSE SumPrice(rows)

\* product JOIN order_product JOIN order
ProductOrderRows ==
    {r \in order_product : r[1] \in DOMAIN order /\ r[2] \in DOMAIN product}

revenue_in_last_x_days(x_days) ==
    Printed("revenue_in_last_x_days", x_days,
            <<SumOrNull({r \in ProductOrderRows : order[r[1]].order_date > now - x_days})>>,
            FALSE)

RECURSIVE SumShipping(_)
\* the days from order to shipping, summed over the orders in ids
SumShipping(ids) ==
    IF ids = {} THEN 0
    ELSE LET i == CHOOSE x \in ids : TRUE
         IN  (order[i].ship_date - order[i].order_date) + SumShipping(ids \ {i})

\* time(avg(seconds), 'unixepoch'): the average as a time of day, in seconds
\* after midnight; NULL when no order is shipped
average_fulfillment_time ==
    LET shipped == {i \in DOMAIN order : order[i].ship_date # None}
    IN  Printed("average_fulfillment_time", None,
                <<IF shipped = {} THEN None
                  ELSE ((SumShipping(shipped) * 86400) \div Cardinality(shipped)) % 86400>>,
                FALSE)

\* customer JOIN order JOIN order_product JOIN product, as the rows
\* <<order_id, product_id>> of one customer
RowsOfCustomer(c) ==
    {r \in ProductOrderRows : order[r[1]].customer_id = c}

HavingSumAtLeast(amount) ==
    {c \in DOMAIN customer : RowsOfCustomer(c) # {} /\ SumPrice(RowsOfCustomer(c)) >= amount}

\* GROUP BY customer HAVING SUM(product.price) > amount: a customer without
\* joined rows has no group
HavingSumMoreThan(amount) ==
    {c \in DOMAIN customer : RowsOfCustomer(c) # {} /\ SumPrice(RowsOfCustomer(c)) > amount}

get_customers_who_spent_more_than_x_dollars(amount) ==
    Printed("get_customers_who_spent_more_than_x_dollars", amount,
            InIdOrder(HavingSumMoreThan(amount), Len(customer)), FALSE)

----------------------------------------------------------------------------
(* The program *)

Init ==
    /\ customer = <<>>
    /\ order = <<>>
    /\ product = <<>>
    /\ order_product = {}
    /\ now = 0
    /\ op = "init"
    /\ arg = None
    /\ failed = ""
    /\ out = <<>>
    /\ pc = "idle"

Seed ==
    \/ add_customers
    \/ add_orders
    \/ add_products
    \/ add_order_products
    \/ create_random_data
    \/ create_random_data_add_orders
    \/ create_random_data_add_products
    \/ create_random_data_add_order_products

Next ==
    \/ Seed
    \/ Tick
    \/ \E customer_id \in CustomerIdInputs : get_orders_by(customer_id)
    \/ get_pending_orders
    \/ how_many_customers
    \/ orders_with_code
    \/ \E x_days \in DaysInputs : revenue_in_last_x_days(x_days)
    \/ average_fulfillment_time
    \/ \E amount \in AmountInputs : get_customers_who_spent_more_than_x_dollars(amount)

Spec == Init /\ [][Next]_vars

----------------------------------------------------------------------------
(* Scopes.  The store Next reaches is too large to enumerate, so each      *)
(* specification below follows the behaviours of Spec in which the random  *)
(* draws stay within a scope: a restriction of the columns that the        *)
(* functions under study do not read.  Every behaviour of a scoped         *)
(* specification is a behaviour of Spec.                                   *)

NoCoupons == \A i \in DOMAIN order : order[i].coupon_code = "None"
Unshipped == \A i \in DOMAIN order : order[i].ship_date = None
ShippedAtOnce ==
    \A i \in DOMAIN order :
        /\ order[i].ship_date \in {None, order[i].order_date}
        /\ order[i].delivered_date = None
OrderedAtStart == \A i \in DOMAIN order : order[i].order_date = 0
FirstCustomer == \A i \in DOMAIN order : order[i].customer_id = 1
FirstTwoCustomers == \A i \in DOMAIN order : order[i].customer_id <= 2
OneBatchOfCustomers == Len(customer) <= CustomersPerBatch
OnePrice == \A i \in DOMAIN product : product[i].price = 20
LaterPrices == \A i \in DOMAIN product : i > 2 => product[i].price = 20
FirstProduct == \A r \in order_product : r[2] = 1
LaterOrdersPlain ==
    \A i \in DOMAIN order :
        i > 1 => order[i].coupon_code = "None" /\ order[i].ship_date = None
FirstThreeProducts == \A r \in order_product : r[2] <= 3

\* seeding: every column but customer_id, email, name and the associations
SeedScope == NoCoupons /\ Unshipped /\ OrderedAtStart /\ FirstTwoCustomers /\ OnePrice

NextSeed ==
    \/ add_customers /\ SeedScope'
    \/ add_orders /\ SeedScope'
    \/ add_products /\ SeedScope'
    \/ add_order_products /\ SeedScope'
    \/ create_random_data /\ SeedScope'
    \/ create_random_data_add_orders /\ SeedScope'
    \/ create_random_data_add_products /\ SeedScope'
    \/ create_random_data_add_order_products /\ SeedScope'
    \/ Tick

SpecSeed == Init /\ [][NextSeed]_vars

\* the dates of the orders, and the reports that read them
FulfilmentScope ==
    NoCoupons /\ FirstCustomer /\ OneBatchOfCustomers /\ OnePrice /\ FirstProduct

NextFulfilment ==
    \/ add_customers /\ FulfilmentScope'
    \/ add_orders /\ FulfilmentScope'
    \/ add_products /\ FulfilmentScope'
    \/ add_order_products /\ FulfilmentScope'
    \/ create_random_data /\ FulfilmentScope'
    \/ create_random_data_add_orders /\ FulfilmentScope'
    \/ create_random_data_add_products /\ FulfilmentScope'
    \/ create_random_data_add_order_products /\ FulfilmentScope'
    \/ Tick
    \/ get_pending_orders
    \/ average_fulfillment_time

SpecFulfilment == Init /\ [][NextFulfilment]_vars

\* the prices, the associations and order_date
RevenueScope ==
    /\ NoCoupons /\ Unshipped /\ FirstCustomer /\ OneBatchOfCustomers
    /\ LaterPrices /\ FirstThreeProducts

NextRevenue ==
    \/ add_customers /\ RevenueScope'
    \/ add_orders /\ RevenueScope'
    \/ add_products /\ RevenueScope'
    \/ add_order_products /\ RevenueScope'
    \/ create_random_data /\ RevenueScope'
    \/ create_random_data_add_orders /\ RevenueScope'
    \/ create_random_data_add_products /\ RevenueScope'
    \/ create_random_data_add_order_products /\ RevenueScope'
    \/ Tick
    \/ \E x_days \in DaysInputs : revenue_in_last_x_days(x_days)

SpecRevenue == Init /\ [][NextRevenue]_vars

\* the prices, the associations and customer_id
SpendersScope ==
    /\ NoCoupons /\ Unshipped /\ OrderedAtStart /\ OneBatchOfCustomers
    /\ LaterPrices /\ FirstThreeProducts

NextSpenders ==
    \/ add_customers /\ SpendersScope'
    \/ add_orders /\ SpendersScope'
    \/ add_products /\ SpendersScope'
    \/ add_order_products /\ SpendersScope'
    \/ create_random_data /\ SpendersScope'
    \/ create_random_data_add_orders /\ SpendersScope'
    \/ create_random_data_add_products /\ SpendersScope'
    \/ create_random_data_add_order_products /\ SpendersScope'
    \/ Tick
    \/ \E amount \in AmountInputs : get_customers_who_spent_more_than_x_dollars(amount)

SpecSpenders == Init /\ [][NextSpenders]_vars

\* every report; the first order has any coupon and is shipped at once or
\* not at all
ReportScope ==
    /\ ShippedAtOnce /\ LaterOrdersPlain /\ OrderedAtStart /\ FirstCustomer
    /\ OneBatchOfCustomers /\ OnePrice /\ FirstProduct

NextReport ==
    \/ add_customers /\ ReportScope'
    \/ add_orders /\ ReportScope'
    \/ add_products /\ ReportScope'
    \/ add_order_products /\ ReportScope'
    \/ create_random_data /\ ReportScope'
    \/ create_random_data_add_orders /\ ReportScope'
    \/ create_random_data_add_products /\ ReportScope'
    \/ create_random_data_add_order_products /\ ReportScope'
    \/ Tick
    \/ \E customer_id \in CustomerIdInputs : get_orders_by(customer_id)
    \/ get_pending_orders
    \/ how_many_customers
    \/ orders_with_code
    \/ \E x_days \in DaysInputs : revenue_in_last_x_days(x_days)
    \/ average_fulfillment_time
    \/ \E amount \in AmountInputs : get_customers_who_spent_more_than_x_dollars(amount)

SpecReport == Init /\ [][NextReport]_vars

----------------------------------------------------------------------------
(* Properties *)

ProductsOf(o) == {p \in DOMAIN product : <<o, p>> \in order_product}

RECURSIVE PriceOfProducts(_, _)
\* the prices of the products of order o with an id up to n, added up
PriceOfProducts(o, n) ==
    IF n = 0 THEN 0
    ELSE PriceOfProducts(o, n - 1)
         + (IF <<o, n>> \in order_product THEN product[n].price ELSE 0)

RECURSIVE PriceOfOrders(_, _)
\* the price of the orders in `which` with an id up to n, added up
PriceOfOrders(which, n) ==
    IF n = 0 THEN 0
    ELSE PriceOfOrders(which, n - 1)
         + (IF n \in which THEN PriceOfProducts(n, Len(product)) ELSE 0)

Pending == {i \in DOMAIN order : order[i].ship_date = None}

\* C1: get_pending_orders reports the orders without a ship_date, each once
\* and no other, latest order_date first
PendingOrdersLatestFirst ==
    op = "get_pending_orders" =>
        /\ Range(out) = Pending
        /\ Len(out) = Cardinality(Pending)
        /\ \A i, j \in DOMAIN out :
               i < j => order[out[i]].order_date >= order[out[j]].order_date

\* two pending orders, reported against the order of their ids
PendingOrdersReordered ==
    /\ op = "get_pending_orders"
    /\ out = <<2, 1>>
    /\ order[2].order_date > order[1].order_date

InWindow(x_days) == {i \in DOMAIN order : order[i].order_date > now - x_days}

\* C2: revenue_in_last_x_days(x) reports the sum of the prices over the
\* (order, product) pairs of the orders dated within the last x days, which
\* is 0 when there is no such pair
RevenueIsSumOverPairs ==
    op = "revenue_in_last_x_days" =>
        out = <<PriceOfOrders(InWindow(arg), Len(order))>>

Owned(c) == {i \in DOMAIN order : order[i].customer_id = c}

Spent(c) == PriceOfOrders(Owned(c), Len(order))

HasBought(c) == \E i \in Owned(c) : ProductsOf(i) # {}

\* C3 as stated: get_customers_who_spent_more_than_x_dollars(amount) reports
\* exactly the customers whose prices add up to more than amount, each once,
\* and never a customer without an order or without a product
SpendersAreThoseAbove ==
    op = "get_customers_who_spent_more_than_x_dollars" =>
        /\ Range(out) = {c \in DOMAIN customer : Spent(c) > arg}
        /\ Distinct(out)
        /\ \A c \in Range(out) : HasBought(c)

\* C3 as amended: it reports exactly the customers who have at least one
\* (order, product) pair and whose prices add up to more than amount, each
\* once; when amount is not negative these are the customers whose prices
\* add up to more than amount
SpendersAreBuyersAbove ==
    op = "get_customers_who_spent_more_than_x_dollars" =>
        /\ Range(out) = {c \in DOMAIN customer : HasBought(c) /\ Spent(c) > arg}
        /\ Distinct(out)
        /\ arg >= 0 => Range(out) = {c \in DOMAIN customer : Spent(c) > arg}

\* both customers have bought, and one of them spent more than the amount
OneSpenderOfTwo ==
    /\ op = "get_customers_who_spent_more_than_x_dollars"
    /\ Len(out) = 1
    /\ \A c \in DOMAIN customer : HasBought(c)

\* C4: an order with a delivered_date has a ship_date
DeliveredOnlyIfShipped ==
    \A i \in DOMAIN order :
        order[i].delivered_date # None => order[i].ship_date # None

\* a delivered order beside an order that is not shipped
DeliveredBesideUnshipped ==
    /\ \E i \in DOMAIN order : order[i].delivered_date # None
    /\ \E i \in DOMAIN order : order[i].ship_date = None

\* C5: no order is shipped before it is ordered, delivered before it is
\* shipped, or ordered later than now
DatesInOrder ==
    \A i \in DOMAIN order :
        /\ order[i].order_date <= now
        /\ order[i].ship_date # None => order[i].ship_date >= order[i].order_date
        /\ (order[i].delivered_date # None /\ order[i].ship_date # None)
               => order[i].delivered_date >= order[i].ship_date

\* an order placed after the start of the year, shipped and delivered
LateOrderDelivered ==
    \E i \in DOMAIN order :
        /\ order[i].order_date > 0
        /\ order[i].ship_date # None
        /\ order[i].delivered_date # None

Seeded ==
    /\ pc = "idle"
    /\ failed = ""
    /\ op \in {"add_order_products", "create_random_data"}

\* C6: when add_order_products or create_random_data has completed, every
\* order has at least 1 and at most 3 products
OneToThreeProducts ==
    Seeded =>
        \A i \in DOMAIN order :
            /\ Cardinality(ProductsOf(i)) >= 1
            /\ Cardinality(ProductsOf(i)) <= 3

\* C7: no two customers share an email and no two products share a name
NoSharedEmailOrName ==
    /\ \A i, j \in DOMAIN customer : customer[i].email = customer[j].email => i = j
    /\ \A i, j \in DOMAIN product : product[i].name = product[j].name => i = j

\* a batch of customers was refused in a store that holds customers and
\* products
BatchRefused ==
    /\ failed = "add_customers"
    /\ customer # <<>>
    /\ product # <<>>

GrewBy(old, new, n) ==
    \/ new = old
    \/ Len(new) = Len(old) + n /\ SubSeq(new, 1, Len(old)) = old

\* C8: a phase that fails changes no table and ends create_random_data; a
\* step changes a table only by a whole batch of new rows
PhaseAllOrNothing ==
    [][/\ failed' # "" => store' = store /\ pc' = "idle"
       /\ GrewBy(customer, customer', CustomersPerBatch)
       /\ GrewBy(order, order', OrdersPerBatch)
       /\ GrewBy(product, product', ProductsPerBatch)
       /\ order_product \subseteq order_product']_vars

\* create_random_data ended in add_products: the customers and orders of
\* its first two phases are there, and neither products nor associations
RunEndedInAddProducts ==
    /\ op = "create_random_data"
    /\ failed = "add_products"
    /\ pc = "idle"
    /\ Len(customer) = CustomersPerBatch
    /\ Len(order) = OrdersPerBatch
    /\ product = <<>>
    /\ order_product = {}

\* C9: every order is of an existing customer and every association is of
\* an existing order and an existing product
ReferentialIntegrity ==
    /\ \A i \in DOMAIN order : order[i].customer_id \in DOMAIN customer
    /\ \A r \in order_product : r[1] \in DOMAIN order /\ r[2] \in DOMAIN product
    /\ customer = <<>> => order = <<>>
    /\ product = <<>> => order_product = {}

\* orders of two customers, each with products
TwoCustomersOrdered ==
    /\ \E i, j \in DOMAIN order : order[i].customer_id # order[j].customer_id
    /\ \A i \in DOMAIN order : ProductsOf(i) # {}

Reports ==
    {"get_orders_by", "get_pending_orders", "how_many_customers", "orders_with_code",
     "revenue_in_last_x_days", "average_fulfillment_time",
     "get_customers_who_spent_more_than_x_dollars"}

\* C10: a report changes no table, whether it returns or raises, and
\* get_orders_by of an id without a customer raises and prints nothing
ReportsLeaveStore ==
    [][op' \in Reports =>
          /\ store' = store
          /\ failed' # "" => (op' = "get_orders_by" /\ arg' \notin DOMAIN customer)
          /\ (op' = "get_orders_by" /\ arg' \notin DOMAIN customer) =>
                 (failed' = "get_orders_by" /\ out' = <<>>)]_vars

\* get_orders_by has raised in a store with orders and associations
OrderHistoryRaised ==
    /\ failed = "get_orders_by"
    /\ order # <<>>
    /\ order_product # {}

====
